---- MODULE Spec2Model ----
(***************************************************************************)
(* The WinSparkle auto-update glue of BrowserOS                            *)
(* (chrome/browser/win/winsparkle_glue.cc) as a state machine.             *)
(*                                                                         *)
(* Two execution contexts take steps: the browser's UI thread (Initialize, *)
(* Cleanup, CheckForUpdates, AddObserver, RemoveObserver and every task    *)
(* taken from the UI thread's task queue) and the WinSparkle agent's own   *)
(* thread, which invokes the callbacks Initialize() registered.  What a    *)
(* step reads from outside the glue is an input of the step: the process's *)
(* command line for Initialize(), the host's AreAllBrowsersCloseable() for *)
(* the shutdown-permission callback.                                       *)
(*                                                                         *)
(* `updater' is the WinSparkleVersionUpdater of the About page, an         *)
(* observer of the glue.                                                   *)
(*                                                                         *)
(* Five variables are history variables, written by every action and read  *)
(* by no guard: `last' (the operation the last step performed, its inputs  *)
(* and the state it found), `events' (the calls that step made to          *)
(* observers, to the agent, to the task runner and to the host, in program *)
(* order), `lastEvent' (the agent's latest status-bearing event, for as    *)
(* long as the UI thread has done nothing since but run queued tasks),     *)
(* `scen' (how far the run has followed the download scenario Initialize,  *)
(* CheckForUpdates, progress 10, progress 55, download complete) and       *)
(* `arrivals' (the transitions the agent reported to a registered callback *)
(* and the UI thread has not delivered yet, in order of arrival).          *)
(***************************************************************************)
EXTENDS Integers, Sequences, FiniteSets, TLC

(***************************************************************************)
(* Bounds of the model.                                                    *)
(***************************************************************************)
\* Longest UI-thread task queue explored: posting is disabled beyond it.
MaxQueue == 2
\* Most delayed force-check tasks pending at once: an Initialize() that would
\* schedule one more is not explored.
MaxDelayed == 1

(***************************************************************************)
(* Program constants.                                                      *)
(***************************************************************************)
kAppcastUrl == "https://cdn.browseros.com/appcast-windows-x64.xml"
kEdDSAPublicKey == "LzQmcNuTsdB3/dsivo0eeN+jPfDoriRHAkkEJcfFs2A="
kUpdateCheckIntervalSeconds == 3600
\* The text ErrorCallback() passes to PostStatusChange.
kErrorMessage == "Update check failed"
\* The version UpdateDownloadedCallback() binds to HandleUpdateReadyOnUIThread.
kPlaceholderVersion == "latest"

\* enum class WinSparkleStatus
WinSparkleStatus ==
  {"Idle", "Checking", "UpdateAvailable", "Downloading", "ReadyToInstall",
   "Installing", "UpToDate", "Error"}

\* The observers that may register (WinSparkleObserver instances).
Observers == {"o1", "o2"}

\* The command lines Initialize() may find: --winsparkle-appcast-url absent
\* or present with a value, --winsparkle-force-check absent or present.
CommandLines ==
  [has_appcast_url : {FALSE}, appcast_url : {""}, force_check : BOOLEAN]
  \cup
  [has_appcast_url : {TRUE}, appcast_url : {"https://test.invalid/appcast.xml"},
   force_check : BOOLEAN]

(***************************************************************************)
(* The agent (WinSparkle): its callback slots, and the events it reports.  *)
(* A slot holds the name of the callback registered in it, or "null"; the  *)
(* agent keeps what was registered across win_sparkle_cleanup.  `regs' and *)
(* `inits' count the registrations per slot and the win_sparkle_init calls *)
(* the agent received since it was last cleaned up.                        *)
(* The glue defines UpdateDownloadedCallback but no statement of           *)
(* Initialize() registers it, and it defines no download-progress          *)
(* callback: both slots stay "null" for ever.                              *)
(***************************************************************************)
CallbackSlots ==
  {"can_shutdown", "shutdown_request", "did_find_update",
   "did_not_find_update", "update_cancelled", "error",
   "update_downloaded", "download_progress"}

\* The status-bearing events of the agent, and the slot each is reported to.
StatusEvents ==
  {"update_found", "no_update_found", "cancelled", "download_progress",
   "download_complete", "error"}

SlotOf(ev) ==
  CASE ev = "update_found"      -> "did_find_update"
    [] ev = "no_update_found"   -> "did_not_find_update"
    [] ev = "cancelled"         -> "update_cancelled"
    [] ev = "error"             -> "error"
    [] ev = "download_complete" -> "update_downloaded"
    [] ev = "download_progress" -> "download_progress"

\* What the agent knows about an event and may or may not hand to a callback:
\* the failure text of an error, the percentage of a download.
AgentErrorMessages == {"network down", "signature mismatch"}
ProgressValues == {10, 55}
\* Every report the agent may make: the event, its text, its number (-1: none).
AgentReports ==
  [ev : {"error"}, text : AgentErrorMessages, num : {-1}]
  \cup [ev : {"download_progress"}, text : {""}, num : ProgressValues]
  \cup [ev : StatusEvents \ {"error", "download_progress"}, text : {""},
        num : {-1}]

VARIABLES
  g_initialized,        \* bool g_initialized
  g_status,             \* WinSparkleStatus g_status
  g_update_ready,       \* bool g_update_ready
  g_pending_version,    \* std::string g_pending_version
  g_last_error,         \* std::string g_last_error
  observers,            \* GetObservers(): the ObserverList, in insertion order
  uiQueue,              \* tasks posted to the UI thread, oldest first
  delayedTasks,         \* delayed CheckForUpdates tasks not yet run
  agent,                \* the WinSparkle agent: running, callback slots
  updater,              \* the WinSparkleVersionUpdater of the About page
  last,                 \* history: the operation of the last step
  events,               \* history: the calls the last step made, in order
  lastEvent,            \* history: the agent's latest status-bearing event
  scen,                 \* history: progress along the download scenario
  arrivals              \* history: reported transitions not yet delivered

glue == <<g_initialized, g_status, g_update_ready, g_pending_version,
          g_last_error>>
vars == <<g_initialized, g_status, g_update_ready, g_pending_version,
          g_last_error, observers, uiQueue, delayedTasks, agent, updater,
          last, events, lastEvent, scen, arrivals>>

(***************************************************************************)
(* Tasks of the UI thread's queue and entries of `events'.                 *)
(***************************************************************************)
Task(fn, status, arg) == [fn |-> fn, status |-> status, arg |-> arg]

\* An OnWinSparkle... call on observer `to'.
Notify(to, method, val) == [k |-> "notify", to |-> to, m |-> method, v |-> val]
\* A call of a win_sparkle_... function.
AgentCall(fn, val) == [k |-> "agent", to |-> "", m |-> fn, v |-> val]
\* A PostTask / PostDelayedTask on the UI thread's task runner.
Post(fn, val) == [k |-> "post", to |-> "", m |-> fn, v |-> val]
\* A call into the host (BuildState::SetUpdate, CloseAllBrowsersAndQuit).
HostCall(fn, val) == [k |-> "host", to |-> "", m |-> fn, v |-> val]
\* An assignment to a global, where its place among the calls matters.
Write(global, val) == [k |-> "write", to |-> "", m |-> global, v |-> val]

RECURSIVE Concat(_)
Concat(ss) == IF ss = <<>> THEN <<>> ELSE Head(ss) \o Concat(Tail(ss))

(***************************************************************************)
(* Getters.                                                                *)
(***************************************************************************)
\* A variant of IsEnabled() that answers from the status.
IsEnabled_FromStatus == g_status # "Idle"

IsEnabled == g_initialized
IsUpdateReady == g_update_ready
GetStatus == g_status

(***************************************************************************)
(* SetStatusOnUIThread: writes g_status, writes g_last_error when the      *)
(* message is not empty, then walks the observer list.                     *)
(***************************************************************************)
\* A variant of the observer loop that never calls OnWinSparkleError.
StatusNotifications_NoError(status, error_message) ==
  [i \in 1..Len(observers) |->
     Notify(observers[i], "OnWinSparkleStatusChanged", status)]

StatusNotifications(status, error_message) ==
  Concat([i \in 1..Len(observers) |->
            <<Notify(observers[i], "OnWinSparkleStatusChanged", status)>>
            \o (IF error_message # ""
                THEN <<Notify(observers[i], "OnWinSparkleError", error_message)>>
                ELSE <<>>)])

\* A variant of SetStatusOnUIThread that stores the message even when it is
\* empty.
SetStatusOnUIThread_Overwrite(status, error_message) ==
  /\ g_status' = status
  /\ g_last_error' = error_message

SetStatusOnUIThread(status, error_message) ==
  /\ g_status' = status
  /\ g_last_error' = IF error_message # "" THEN error_message ELSE g_last_error

(***************************************************************************)
(* The observer loop of SetStatusOnUIThread when an observer calls         *)
(* RemoveObserver() from inside OnWinSparkleStatusChanged.  GetObservers() *)
(* is a base::ObserverList: while an iteration is live RemoveObserver()    *)
(* marks the entry and leaves it in place, the iterator steps over marked  *)
(* entries, and the list is compacted when the iteration ends.             *)
(***************************************************************************)
\* A variant of the removal that erases the entry under the live iteration.
MarkForRemoval_Erase(list, observer) ==
  SelectSeq(list, LAMBDA o : o # observer)

\* RemoveObserver() under a live iteration.
MarkForRemoval(list, observer) ==
  [i \in 1..Len(list) |-> IF list[i] = observer THEN "null" ELSE list[i]]

\* The end of the iteration.
Compact(list) == SelectSeq(list, LAMBDA o : o # "null")

\* The loop from index i on: `remover' calls RemoveObserver(removed) in its
\* OnWinSparkleStatusChanged; the loop body then goes on with the same
\* observer.  The result is the list left behind and the calls made.
RECURSIVE StatusRound(_, _, _, _, _, _)
StatusRound(list, i, status, error_message, remover, removed) ==
  IF i > Len(list) THEN [list |-> Compact(list), evs |-> <<>>]
  ELSE IF list[i] = "null"
    THEN StatusRound(list, i + 1, status, error_message, remover, removed)
  ELSE LET o == list[i]
           after == IF o = remover THEN MarkForRemoval(list, removed) ELSE list
           rest == StatusRound(after, i + 1, status, error_message,
                               remover, removed)
       IN [list |-> rest.list,
           evs |-> <<Notify(o, "OnWinSparkleStatusChanged", status)>>
                   \o (IF error_message # ""
                       THEN <<Notify(o, "OnWinSparkleError", error_message)>>
                       ELSE <<>>)
                   \o rest.evs]

\* What NotifyUpgradeReady finds of the host when it runs: whether
\* g_browser_process is non-null and, if so, whether its GetBuildState()
\* is non-null.
HostStates ==
  {[browser_process |-> TRUE, build_state |-> TRUE],
   [browser_process |-> TRUE, build_state |-> FALSE],
   [browser_process |-> FALSE, build_state |-> FALSE]}

BrowserProcessPresent(host) == host.browser_process
BuildStatePresent(host) == host.build_state

\* NotifyUpgradeReady: the host calls it makes.  It returns without a call
\* when there is no browser process or no build state.
NotifyUpgradeReady(version, host) ==
  IF ~BrowserProcessPresent(host) THEN <<>>
  ELSE IF ~BuildStatePresent(host) THEN <<>>
  ELSE <<HostCall("BuildState::SetUpdate", version)>>

\* A variant of PostStatusChange that puts the task at the front of the queue.
PostStatusChange_Front(status, error_message) ==
  /\ uiQueue' = <<Task("SetStatusOnUIThread", status, error_message)>> \o uiQueue
  /\ events' = <<Post("SetStatusOnUIThread", status)>>

\* PostStatusChange: one SetStatusOnUIThread task at the back of the queue.
PostStatusChange(status, error_message) ==
  /\ uiQueue' = Append(uiQueue, Task("SetStatusOnUIThread", status, error_message))
  /\ events' = <<Post("SetStatusOnUIThread", status)>>


(***************************************************************************)
(* HandleUpdateReadyOnUIThread: the flag and the version first, then the   *)
(* status with its notifications, then the host's upgrade indicator.       *)
(***************************************************************************)
HandleUpdateReadyOnUIThread(version, host) ==
  /\ g_update_ready' = TRUE
  /\ g_pending_version' = version
  /\ SetStatusOnUIThread("ReadyToInstall", "")
  /\ events' = <<Write("g_update_ready", "true"),
                 Write("g_pending_version", version),
                 Write("g_status", "ReadyToInstall")>>
               \o StatusNotifications("ReadyToInstall", "")
               \o NotifyUpgradeReady(version, host)

(***************************************************************************)
(* The WinSparkle callbacks.  They run on the agent's thread.              *)
(***************************************************************************)
\* int CanShutdownCallback(): 1 or 0, from the host's answer to
\* chrome::AreAllBrowsersCloseable() at the time of the call.
\* A variant that always grants the shutdown.
CanShutdownCallback_Always(AreAllBrowsersCloseable) == 1

CanShutdownCallback(AreAllBrowsersCloseable) ==
  IF AreAllBrowsersCloseable THEN 1 ELSE 0

\* A variant of ShutdownRequestCallback() that calls the host's primitive
\* itself, on the agent's thread.
ShutdownRequestCallback_Direct ==
  /\ uiQueue' = uiQueue
  /\ events' = <<HostCall("CloseAllBrowsersAndQuit", "")>>

\* A variant of ShutdownRequestCallback() that reports the installation as
\* a status instead of asking the browser to quit.
ShutdownRequestCallback_Installing ==
  /\ uiQueue' = Append(uiQueue, Task("SetStatusOnUIThread", "Installing", ""))
  /\ events' = <<Post("SetStatusOnUIThread", "Installing")>>

ShutdownRequestCallback ==
  /\ uiQueue' = Append(uiQueue, Task("CloseAllBrowsersAndQuit", "", ""))
  /\ events' = <<Post("CloseAllBrowsersAndQuit", "")>>

\* A variant of DidFindUpdateCallback() that walks the observer list itself,
\* on the agent's thread.
DidFindUpdateCallback_Direct ==
  /\ uiQueue' = uiQueue
  /\ events' = StatusNotifications("UpdateAvailable", "")

DidFindUpdateCallback == PostStatusChange("UpdateAvailable", "")

\* A variant of DidNotFindUpdateCallback() that goes back to Idle.
DidNotFindUpdateCallback_Idle == PostStatusChange("Idle", "")

DidNotFindUpdateCallback == PostStatusChange("UpToDate", "")

UpdateCancelledCallback == PostStatusChange("Idle", "")

\* void ErrorCallback(): the agent hands it no argument.
ErrorCallback == PostStatusChange("Error", kErrorMessage)

UpdateDownloadedCallback ==
  /\ uiQueue' = Append(uiQueue, Task("HandleUpdateReadyOnUIThread", "",
                                     kPlaceholderVersion))
  /\ events' = <<Post("HandleUpdateReadyOnUIThread", kPlaceholderVersion)>>

\* The agent calling through a slot: the callback registered there runs.
InvokeCallback(cb) ==
  CASE cb = "DidFindUpdateCallback"    -> DidFindUpdateCallback
    [] cb = "DidNotFindUpdateCallback" -> DidNotFindUpdateCallback
    [] cb = "UpdateCancelledCallback"  -> UpdateCancelledCallback
    [] cb = "ErrorCallback"            -> ErrorCallback
    [] cb = "UpdateDownloadedCallback" -> UpdateDownloadedCallback
    [] cb = "ShutdownRequestCallback"  -> ShutdownRequestCallback

(***************************************************************************)
(* Initialize().  `cmd' is what base::CommandLine::ForCurrentProcess()     *)
(* holds when the call is made.                                            *)
(***************************************************************************)
\* The callbacks Initialize() registers, by slot (steps 4 and 5).
RegisteredByInitialize ==
  [s \in CallbackSlots |->
     CASE s = "can_shutdown"        -> "CanShutdownCallback"
       [] s = "shutdown_request"    -> "ShutdownRequestCallback"
       [] s = "did_find_update"     -> "DidFindUpdateCallback"
       [] s = "did_not_find_update" -> "DidNotFindUpdateCallback"
       [] s = "update_cancelled"    -> "UpdateCancelledCallback"
       [] s = "error"               -> "ErrorCallback"
       [] OTHER                     -> "null"]

\* The win_sparkle_set_..._callback calls of Initialize(), in program order.
RegistrationOrder ==
  <<"can_shutdown", "shutdown_request", "did_find_update",
    "did_not_find_update", "update_cancelled", "error">>

\* Initialize() past its already-initialized check.
InitializeEffective(cmd) ==
       LET appcast_url == IF cmd.has_appcast_url
                          THEN cmd.appcast_url ELSE kAppcastUrl
       IN
       /\ agent' = [agent EXCEPT
            !.callbacks = [s \in CallbackSlots |->
                             IF RegisteredByInitialize[s] # "null"
                             THEN RegisteredByInitialize[s] ELSE @[s]],
            !.regs = [s \in CallbackSlots |->
                        IF RegisteredByInitialize[s] # "null"
                        THEN @[s] + 1 ELSE @[s]],
            !.inits = @ + 1,
            !.running = TRUE]
       /\ g_initialized' = TRUE
       /\ g_status' = "Idle"
       /\ delayedTasks' = IF cmd.force_check THEN delayedTasks + 1
                          ELSE delayedTasks
       /\ events' =
            <<AgentCall("win_sparkle_set_eddsa_public_key", kEdDSAPublicKey),
              AgentCall("win_sparkle_set_appcast_url", appcast_url),
              AgentCall("win_sparkle_set_automatic_check_for_updates", "1"),
              AgentCall("win_sparkle_set_update_check_interval",
                        ToString(kUpdateCheckIntervalSeconds))>>
            \o [i \in 1..Len(RegistrationOrder) |->
                  AgentCall("win_sparkle_set_" \o RegistrationOrder[i] \o "_callback",
                            RegisteredByInitialize[RegistrationOrder[i]])]
            \o <<AgentCall("win_sparkle_init", "")>>
            \o (IF cmd.force_check
                THEN <<Post("CheckForUpdates", "delayed")>> ELSE <<>>)
       /\ UNCHANGED <<g_update_ready, g_pending_version, g_last_error>>

\* A variant of Initialize() without the already-initialized check.
Initialize_Unguarded(cmd) == InitializeEffective(cmd)

\* A variant of Initialize() that ignores --winsparkle-force-check.
Initialize_NoForceCheck(cmd) ==
  IF g_initialized
  THEN /\ events' = <<>>
       /\ UNCHANGED <<glue, agent, delayedTasks>>
  ELSE InitializeEffective([cmd EXCEPT !.force_check = FALSE])

Initialize(cmd) ==
  IF g_initialized
  THEN /\ events' = <<>>
       /\ UNCHANGED <<glue, agent, delayedTasks>>
  ELSE InitializeEffective(cmd)

(***************************************************************************)
(* Cleanup().                                                              *)
(***************************************************************************)
\* A variant of the effective part that tells the observers of the reset.
CleanupEffective_Notifying ==
  /\ agent' = [agent EXCEPT !.running = FALSE,
                            !.regs = [s \in CallbackSlots |-> 0],
                            !.inits = 0]
  /\ g_initialized' = FALSE
  /\ g_status' = "Idle"
  /\ g_update_ready' = FALSE
  /\ g_pending_version' = ""
  /\ g_last_error' = ""
  /\ events' = <<AgentCall("win_sparkle_cleanup", "")>>
               \o StatusNotifications("Idle", "")

\* Cleanup() past its not-initialized check.
CleanupEffective ==
  /\ agent' = [agent EXCEPT !.running = FALSE,
                            !.regs = [s \in CallbackSlots |-> 0],
                            !.inits = 0]
  /\ g_initialized' = FALSE
  /\ g_status' = "Idle"
  /\ g_update_ready' = FALSE
  /\ g_pending_version' = ""
  /\ g_last_error' = ""
  /\ events' = <<AgentCall("win_sparkle_cleanup", "")>>

\* A variant of Cleanup() without the not-initialized check.
Cleanup_Unguarded == CleanupEffective

Cleanup ==
  IF ~g_initialized
  THEN /\ events' = <<>>
       /\ UNCHANGED <<glue, agent>>
  ELSE CleanupEffective

(***************************************************************************)
(* CheckForUpdates(): status and notifications at once, the agent's check  *)
(* in a task of its own.                                                   *)
(***************************************************************************)
CheckingNotifications ==
  [i \in 1..Len(observers) |->
     Notify(observers[i], "OnWinSparkleStatusChanged", "Checking")]

\* A variant of CheckForUpdates() that treats Error as final.
CheckForUpdates_ErrorIsFinal ==
  IF ~g_initialized \/ g_status = "Error"
  THEN /\ events' = <<>>
       /\ UNCHANGED <<g_status, uiQueue>>
  ELSE /\ g_status' = "Checking"
       /\ uiQueue' = Append(uiQueue, Task("CheckUpdateLambda", "", ""))
       /\ events' = CheckingNotifications \o <<Post("CheckUpdateLambda", "")>>

\* A variant of CheckForUpdates() without the not-initialized check.
CheckForUpdates_Unguarded ==
  /\ g_status' = "Checking"
  /\ uiQueue' = Append(uiQueue, Task("CheckUpdateLambda", "", ""))
  /\ events' = CheckingNotifications \o <<Post("CheckUpdateLambda", "")>>

\* A variant of CheckForUpdates() that calls the agent's check itself.
CheckForUpdates_Inline ==
  IF ~g_initialized
  THEN /\ events' = <<>>
       /\ UNCHANGED <<g_status, uiQueue>>
  ELSE /\ g_status' = "Checking"
       /\ uiQueue' = uiQueue
       /\ events' = CheckingNotifications
                    \o <<AgentCall("win_sparkle_check_update_with_ui", "")>>

CheckForUpdates ==
  IF ~g_initialized
  THEN /\ events' = <<>>
       /\ UNCHANGED <<g_status, uiQueue>>
  ELSE /\ g_status' = "Checking"
       /\ uiQueue' = Append(uiQueue, Task("CheckUpdateLambda", "", ""))
       /\ events' = CheckingNotifications \o <<Post("CheckUpdateLambda", "")>>

(***************************************************************************)
(* WinSparkleVersionUpdater::CheckForUpdate, the caller of CheckForUpdates  *)
(* behind the About page.  `has_callback' says whether the status callback *)
(* it was handed is non-null.                                              *)
(***************************************************************************)
kUpdaterUnavailableMessage == "WinSparkle updater not available"

\* One run of the status callback: the status and the message it is given.
CallbackRun(status, message) == [status |-> status, message |-> message]

(***************************************************************************)
(* WinSparkleVersionUpdater as an observer.  `updater' is the instance the *)
(* model follows: whether it exists, and whether its status_callback_ is   *)
(* non-null.  Each handler yields the runs of the status callback it       *)
(* makes.                                                                  *)
(***************************************************************************)
\* The identity of the instance in the observer list.
kUpdater == "updater"
\* The message OnWinSparkleStatusChanged attaches to kError.
kUpdaterErrorMessage == "Update check failed"
kProgressPrefix == "Downloading update: "

\* A run of the status callback that carries a percentage.
ProgressRun(status, progress, message) ==
  [status |-> status, message |-> message, progress |-> progress]

\* A variant of OnWinSparkleStatusChanged whose kIdle case does not return.
OnWinSparkleStatusChanged_IdleReported(has_callback, status) ==
  IF ~has_callback THEN <<>>
  ELSE <<CallbackRun(
           CASE status = "Idle"            -> "CHECKING"
             [] status = "Checking"        -> "CHECKING"
             [] status = "UpdateAvailable" -> "UPDATING"
             [] status = "Downloading"     -> "UPDATING"
             [] status = "ReadyToInstall"  -> "NEARLY_UPDATED"
             [] status = "Installing"      -> "NEARLY_UPDATED"
             [] status = "UpToDate"        -> "UPDATED"
             [] status = "Error"           -> "FAILED",
           IF status = "Error" THEN kUpdaterErrorMessage ELSE "")>>

OnWinSparkleStatusChanged(has_callback, status) ==
  IF ~has_callback THEN <<>>
  ELSE IF status = "Idle" THEN <<>>
  ELSE <<CallbackRun(
           CASE status = "Checking"        -> "CHECKING"
             [] status = "UpdateAvailable" -> "UPDATING"
             [] status = "Downloading"     -> "UPDATING"
             [] status = "ReadyToInstall"  -> "NEARLY_UPDATED"
             [] status = "Installing"      -> "NEARLY_UPDATED"
             [] status = "UpToDate"        -> "UPDATED"
             [] status = "Error"           -> "FAILED",
           IF status = "Error" THEN kUpdaterErrorMessage ELSE "")>>

OnWinSparkleProgress(has_callback, percent_complete) ==
  IF ~has_callback THEN <<>>
  ELSE <<ProgressRun("UPDATING", percent_complete,
                     kProgressPrefix \o ToString(percent_complete) \o "%")>>

OnWinSparkleError(has_callback, error_message) ==
  IF ~has_callback THEN <<>>
  ELSE <<CallbackRun("FAILED", error_message)>>

\* The runs of the status callback the notifications `evs' make when they
\* reach the updater: each OnWinSparkle... call on it runs its handler.
StatusCallbackRuns(evs, has_callback) ==
  Concat([i \in 1..Len(evs) |->
            IF evs[i].k = "notify" /\ evs[i].to = kUpdater
            THEN CASE evs[i].m = "OnWinSparkleStatusChanged" ->
                        OnWinSparkleStatusChanged(has_callback, evs[i].v)
                   [] evs[i].m = "OnWinSparkleError" ->
                        OnWinSparkleError(has_callback, evs[i].v)
                   [] OTHER -> <<>>
            ELSE <<>>])

\* A variant that drops the request silently when the glue is not enabled.
CheckForUpdate_StatusCallback_Silent(has_callback) ==
  IF ~IsEnabled THEN <<>>
  ELSE (IF has_callback THEN <<CallbackRun("CHECKING", "")>> ELSE <<>>)
       \o StatusCallbackRuns(CheckingNotifications, has_callback)

\* The runs of the status callback the call makes, in order: FAILED when the
\* glue is not enabled; otherwise CHECKING from the call itself, and then
\* whatever OnWinSparkleStatusChanged(kChecking) runs when
\* winsparkle_glue::CheckForUpdates() notifies the observers, this updater
\* among them if it is in the list.  status_callback_ already holds the
\* callback of this call.
CheckForUpdate_StatusCallback(has_callback) ==
  IF ~IsEnabled
  THEN IF has_callback
       THEN <<CallbackRun("FAILED", kUpdaterUnavailableMessage)>>
       ELSE <<>>
  ELSE (IF has_callback THEN <<CallbackRun("CHECKING", "")>> ELSE <<>>)
       \o StatusCallbackRuns(CheckingNotifications, has_callback)

\* What the call does to the glue: nothing when the glue is not enabled,
\* winsparkle_glue::CheckForUpdates() otherwise.
CheckForUpdate ==
  IF ~IsEnabled
  THEN /\ events' = <<>>
       /\ UNCHANGED <<g_status, uiQueue>>
  ELSE CheckForUpdates

\* An entry of `last': the operation, its argument (an observer, an agent
\* event, a task's function, the host's answer, "force_check" when
\* Initialize() found the flag), the status and text a task
\* or an event carries, a number (a percentage, a callback's result; -1 for
\* none), the initialized flag and status the step found, and the runs of
\* the updater's status callback the step's notifications made.
Op(op, arg, status, text, num) ==
  [op |-> op, arg |-> arg, status |-> status, text |-> text, num |-> num,
   preInit |-> g_initialized, preStatus |-> g_status,
   reports |-> StatusCallbackRuns(events', updater.has_callback)]

\* A variant of the posted task without the initialized check.
CheckUpdateLambda_Unguarded ==
  /\ events' = <<AgentCall("win_sparkle_check_update_with_ui", "")>>
  /\ UNCHANGED glue

\* The task CheckForUpdates() posts.
CheckUpdateLambda ==
  /\ events' = IF g_initialized
               THEN <<AgentCall("win_sparkle_check_update_with_ui", "")>>
               ELSE <<>>
  /\ UNCHANGED glue

\* chrome::CloseAllBrowsersAndQuit, run as a task.
CloseAllBrowsersAndQuit ==
  /\ events' = <<HostCall("CloseAllBrowsersAndQuit", "")>>
  /\ UNCHANGED glue

(***************************************************************************)
(* The download scenario: on a fresh controller Initialize(), then         *)
(* CheckForUpdates(), then the agent's download progress 10, download      *)
(* progress 55 and download complete, the UI thread running its tasks in   *)
(* between.  `scen.step' counts the scenario's operations done so far,     *)
(* `scen.notified' the host's upgrade indicator calls made since its       *)
(* start; any other operation leaves the scenario.                         *)
(***************************************************************************)
NoScen == [step |-> 0, notified |-> 0]

IndicatorCalls(evs) ==
  Len(SelectSeq(evs, LAMBDA e : e.k = "host" /\ e.m = "BuildState::SetUpdate"))

ScenStep(sc, was, l, evs) ==
  IF l.op = "RunTask" /\ sc.step > 0
    THEN [sc EXCEPT !.notified = @ + IndicatorCalls(evs)]
  ELSE IF was.op = "start" /\ l.op = "Initialize"
    THEN [step |-> 1, notified |-> 0]
  ELSE IF sc.step = 1 /\ l.op = "CheckForUpdates"
    THEN [sc EXCEPT !.step = 2]
  ELSE IF sc.step = 2 /\ l.op = "AgentEmit" /\ l.arg = "download_progress"
          /\ l.num = 10
    THEN [sc EXCEPT !.step = 3]
  ELSE IF sc.step = 3 /\ l.op = "AgentEmit" /\ l.arg = "download_progress"
          /\ l.num = 55
    THEN [sc EXCEPT !.step = 4]
  ELSE IF sc.step = 4 /\ l.op = "AgentEmit" /\ l.arg = "download_complete"
    THEN [sc EXCEPT !.step = 5]
  ELSE NoScen

\* The agent's latest status-bearing event, kept while the UI thread only
\* runs queued tasks and dropped by any other operation.
NoEvent == [ev |-> "none", text |-> "", num |-> -1]

EventStep(le, l) ==
  IF l.op = "AgentEmit" THEN [ev |-> l.arg, text |-> l.text, num |-> l.num]
  ELSE IF l.op = "RunTask" THEN le
  ELSE NoEvent

\* The transition table: the status each event of the agent leads to.
TransitionTable(ev) ==
  CASE ev = "update_found"      -> "UpdateAvailable"
    [] ev = "no_update_found"   -> "UpToDate"
    [] ev = "cancelled"         -> "Idle"
    [] ev = "download_progress" -> "Downloading"
    [] ev = "download_complete" -> "ReadyToInstall"
    [] ev = "error"             -> "Error"

\* The transitions reported and not yet delivered: an event the agent hands
\* to a registered callback joins at the back, a status task run by the UI
\* thread delivers the one at the front.
StatusTasks == {"SetStatusOnUIThread", "HandleUpdateReadyOnUIThread"}

ArrivalStep(arr, l) ==
  IF l.op = "AgentEmit" /\ agent.callbacks[SlotOf(l.arg)] # "null"
    THEN Append(arr, TransitionTable(l.arg))
  ELSE IF l.op \in {"RunTask", "RunTaskRemoving"} /\ l.arg \in StatusTasks
          /\ arr # <<>>
    THEN Tail(arr)
  ELSE arr

Track ==
  /\ scen' = ScenStep(scen, last, last', events')
  /\ lastEvent' = EventStep(lastEvent, last')
  /\ arrivals' = ArrivalStep(arrivals, last')

\* An entry of `last' for a step that consulted the host: Op's fields and
\* the host state the step found.
HostOp(op, arg, status, text, host) ==
  [op |-> op, arg |-> arg, status |-> status, text |-> text, num |-> -1,
   preInit |-> g_initialized, preStatus |-> g_status,
   reports |-> StatusCallbackRuns(events', updater.has_callback),
   host |-> host]

(***************************************************************************)
(* The steps of the UI thread.                                             *)
(***************************************************************************)
InitializeCall(cmd) ==
  /\ g_initialized \/ ~cmd.force_check \/ delayedTasks < MaxDelayed
  /\ Initialize(cmd)
  /\ last' = Op("Initialize", IF cmd.force_check THEN "force_check" ELSE "",
                "", "", -1)
  /\ UNCHANGED <<observers, uiQueue>>
  /\ UNCHANGED updater
  /\ Track

CleanupCall ==
  /\ Cleanup
  /\ last' = Op("Cleanup", "", "", "", -1)
  /\ UNCHANGED <<observers, uiQueue, delayedTasks>>
  /\ UNCHANGED updater
  /\ Track

CheckForUpdatesCall ==
  /\ ~g_initialized \/ Len(uiQueue) < MaxQueue
  /\ CheckForUpdates
  /\ last' = Op("CheckForUpdates", "", "", "", -1)
  /\ UNCHANGED <<g_initialized, g_update_ready, g_pending_version,
                 g_last_error, observers, delayedTasks, agent>>
  /\ UNCHANGED updater
  /\ Track

\* The About page asks its WinSparkleVersionUpdater to check for an update;
\* the updater keeps the status callback it is handed (status_callback_).
\* The call has a receiver: the updater exists, and so is in the list.
CheckForUpdateCall(has_callback) ==
  /\ updater.alive
  /\ ~g_initialized \/ Len(uiQueue) < MaxQueue
  /\ CheckForUpdate
  /\ last' = [op |-> "CheckForUpdate",
              arg |-> IF has_callback THEN "callback" ELSE "",
              status |-> "", text |-> "", num |-> -1,
              preInit |-> g_initialized, preStatus |-> g_status,
              reports |-> CheckForUpdate_StatusCallback(has_callback)]
  /\ updater' = [updater EXCEPT !.has_callback = has_callback]
  /\ UNCHANGED <<g_initialized, g_update_ready, g_pending_version,
                 g_last_error, observers, delayedTasks, agent>>
  /\ Track

\* The delayed task of Initialize() (--winsparkle-force-check) comes due.
RunDelayedTask ==
  /\ delayedTasks > 0
  /\ ~g_initialized \/ Len(uiQueue) < MaxQueue
  /\ delayedTasks' = delayedTasks - 1
  /\ CheckForUpdates
  /\ last' = Op("RunDelayedTask", "CheckForUpdates", "", "", -1)
  /\ UNCHANGED <<g_initialized, g_update_ready, g_pending_version,
                 g_last_error, observers, agent>>
  /\ UNCHANGED updater
  /\ Track

\* The UI thread takes the oldest task of its queue and runs it.  A
\* HandleUpdateReadyOnUIThread task finds the host in one of HostStates, and
\* `last' keeps which.
RunTask ==
  /\ uiQueue # <<>>
  /\ LET t == Head(uiQueue) IN
       CASE t.fn = "SetStatusOnUIThread" ->
              /\ SetStatusOnUIThread(t.status, t.arg)
              /\ events' = StatusNotifications(t.status, t.arg)
              /\ UNCHANGED <<g_initialized, g_update_ready, g_pending_version>>
              /\ last' = Op("RunTask", t.fn, t.status, t.arg, -1)
         [] t.fn = "HandleUpdateReadyOnUIThread" ->
              \E host \in HostStates :
                /\ HandleUpdateReadyOnUIThread(t.arg, host)
                /\ UNCHANGED g_initialized
                /\ last' = HostOp("RunTask", t.fn, t.status, t.arg, host)
         [] t.fn = "CloseAllBrowsersAndQuit" ->
              /\ CloseAllBrowsersAndQuit
              /\ last' = Op("RunTask", t.fn, t.status, t.arg, -1)
         [] t.fn = "CheckUpdateLambda" ->
              /\ CheckUpdateLambda
              /\ last' = Op("RunTask", t.fn, t.status, t.arg, -1)
  /\ uiQueue' = Tail(uiQueue)
  /\ UNCHANGED <<observers, delayedTasks, agent>>
  /\ UNCHANGED updater
  /\ Track

\* The UI thread runs the oldest task, a SetStatusOnUIThread, and the
\* registered observer `remover' answers OnWinSparkleStatusChanged by calling
\* RemoveObserver(removed), on itself or on another observer.
RunTaskRemoving(remover, removed) ==
  /\ uiQueue # <<>>
  /\ Head(uiQueue).fn = "SetStatusOnUIThread"
  /\ \E i \in 1..Len(observers) : observers[i] = remover
  /\ LET t == Head(uiQueue)
         round == StatusRound(observers, 1, t.status, t.arg, remover, removed)
     IN
       /\ SetStatusOnUIThread(t.status, t.arg)
       /\ events' = round.evs
       /\ observers' = round.list
       /\ last' = [op |-> "RunTaskRemoving", arg |-> t.fn, status |-> t.status,
                   text |-> t.arg, num |-> -1, preInit |-> g_initialized,
                   preStatus |-> g_status, remover |-> remover,
                   removed |-> removed, before |-> observers,
                   reports |-> StatusCallbackRuns(round.evs,
                                                  updater.has_callback)]
  /\ uiQueue' = Tail(uiQueue)
  /\ UNCHANGED <<g_initialized, g_update_ready, g_pending_version,
                 delayedTasks, agent>>
  /\ UNCHANGED updater
  /\ Track

AddObserver(observer) ==
  /\ \A i \in 1..Len(observers) : observers[i] # observer
  /\ observers' = Append(observers, observer)
  /\ events' = <<>>
  /\ last' = Op("AddObserver", observer, "", "", -1)
  /\ UNCHANGED <<glue, uiQueue, delayedTasks, agent>>
  /\ UNCHANGED updater
  /\ Track

RemoveObserver(observer) ==
  /\ observers' = SelectSeq(observers, LAMBDA o : o # observer)
  /\ events' = <<>>
  /\ last' = Op("RemoveObserver", observer, "", "", -1)
  /\ UNCHANGED <<glue, uiQueue, delayedTasks, agent>>
  /\ UNCHANGED updater
  /\ Track

(***************************************************************************)
(* The steps of the agent's thread.  The agent reports events while it     *)
(* runs (between win_sparkle_init and win_sparkle_cleanup); an event whose *)
(* slot holds no callback reaches nobody.  `text' and `num' are what the   *)
(* agent knows about the event: the failure text, the percentage.          *)
(***************************************************************************)
AgentEmit(ev, text, num) ==
  /\ agent.running
  /\ LET cb == agent.callbacks[SlotOf(ev)] IN
       /\ cb = "null" \/ Len(uiQueue) < MaxQueue
       /\ IF cb = "null"
          THEN /\ events' = <<>>
               /\ UNCHANGED uiQueue
          ELSE InvokeCallback(cb)
  /\ last' = Op("AgentEmit", ev, "", text, num)
  /\ UNCHANGED <<glue, observers, delayedTasks, agent>>
  /\ UNCHANGED updater
  /\ Track

\* The agent asks whether the application can be closed now; `answer' is
\* what chrome::AreAllBrowsersCloseable() returns at that moment.
AgentCanShutdown(answer) ==
  /\ agent.running
  /\ agent.callbacks["can_shutdown"] = "CanShutdownCallback"
  /\ events' = <<>>
  /\ last' = Op("CanShutdownCallback",
                IF answer THEN "closeable" ELSE "not closeable", "", "",
                CanShutdownCallback(answer))
  /\ UNCHANGED <<glue, observers, uiQueue, delayedTasks, agent>>
  /\ UNCHANGED updater
  /\ Track

\* The agent asks the application to shut down.
AgentShutdownRequest ==
  /\ agent.running
  /\ agent.callbacks["shutdown_request"] # "null"
  /\ Len(uiQueue) < MaxQueue
  /\ InvokeCallback(agent.callbacks["shutdown_request"])
  /\ last' = Op("ShutdownRequestCallback", "", "", "", -1)
  /\ UNCHANGED <<glue, observers, delayedTasks, agent>>
  /\ UNCHANGED updater
  /\ Track

(***************************************************************************)
(* The steps of the WinSparkleVersionUpdater: its construction and         *)
(* destruction, and the calls of its observer methods.  The methods are    *)
(* called on a registered observer, with any status, percentage or text a  *)
(* notification can carry.                                                 *)
(***************************************************************************)
UpdaterOp(op, status, text, num, runs) ==
  [op |-> op, arg |-> "", status |-> status, text |-> text, num |-> num,
   preInit |-> g_initialized, preStatus |-> g_status, reports |-> runs]

\* WinSparkleVersionUpdater(): winsparkle_glue::AddObserver(this).
UpdaterConstruct ==
  /\ ~updater.alive
  /\ updater' = [alive |-> TRUE, has_callback |-> FALSE]
  /\ observers' = Append(observers, kUpdater)
  /\ last' = UpdaterOp("WinSparkleVersionUpdater", "", "", -1, <<>>)
  /\ events' = <<>>
  /\ UNCHANGED <<glue, uiQueue, delayedTasks, agent>>
  /\ Track

\* ~WinSparkleVersionUpdater(): winsparkle_glue::RemoveObserver(this).
UpdaterDestruct ==
  /\ updater.alive
  /\ updater' = [alive |-> FALSE, has_callback |-> FALSE]
  /\ observers' = SelectSeq(observers, LAMBDA o : o # kUpdater)
  /\ last' = UpdaterOp("~WinSparkleVersionUpdater", "", "", -1, <<>>)
  /\ events' = <<>>
  /\ UNCHANGED <<glue, uiQueue, delayedTasks, agent>>
  /\ Track

UpdaterStatusChanged(status) ==
  /\ \E i \in 1..Len(observers) : observers[i] = kUpdater
  /\ last' = UpdaterOp("OnWinSparkleStatusChanged", status, "", -1,
                       OnWinSparkleStatusChanged(updater.has_callback, status))
  /\ events' = <<>>
  /\ UNCHANGED <<glue, observers, uiQueue, delayedTasks, agent, updater>>
  /\ Track

UpdaterProgress(percent_complete) ==
  /\ \E i \in 1..Len(observers) : observers[i] = kUpdater
  /\ last' = UpdaterOp("OnWinSparkleProgress", "", "", percent_complete,
                       OnWinSparkleProgress(updater.has_callback,
                                            percent_complete))
  /\ events' = <<>>
  /\ UNCHANGED <<glue, observers, uiQueue, delayedTasks, agent, updater>>
  /\ Track

UpdaterError(error_message) ==
  /\ \E i \in 1..Len(observers) : observers[i] = kUpdater
  /\ last' = UpdaterOp("OnWinSparkleError", "", error_message, -1,
                       OnWinSparkleError(updater.has_callback, error_message))
  /\ events' = <<>>
  /\ UNCHANGED <<glue, observers, uiQueue, delayedTasks, agent, updater>>
  /\ Track

\* UpdateDownloadedCallback() is called, as the agent would call it on its
\* thread if the callback were registered.  No step of the program makes
\* this call: it is part of the second specification below only, which
\* exercises the callback and the task it posts.
UpdateDownloadedCall ==
  /\ agent.running
  /\ Len(uiQueue) < MaxQueue
  /\ UpdateDownloadedCallback
  /\ last' = Op("UpdateDownloadedCallback", "", "", "", -1)
  /\ UNCHANGED <<glue, observers, delayedTasks, agent>>
  /\ UNCHANGED updater
  /\ Track

(***************************************************************************)
(* The specification.                                                      *)
(***************************************************************************)
Init ==
  /\ g_initialized = FALSE
  /\ g_status = "Idle"
  /\ g_update_ready = FALSE
  /\ g_pending_version = ""
  /\ g_last_error = ""
  /\ observers = <<>>
  /\ uiQueue = <<>>
  /\ delayedTasks = 0
  /\ agent = [running |-> FALSE,
              callbacks |-> [s \in CallbackSlots |-> "null"],
              regs |-> [s \in CallbackSlots |-> 0],
              inits |-> 0]
  /\ last = [op |-> "start", arg |-> "", status |-> "", text |-> "",
             num |-> -1, preInit |-> FALSE, preStatus |-> "Idle",
             reports |-> <<>>]
  /\ events = <<>>
  /\ lastEvent = NoEvent
  /\ scen = NoScen
  /\ arrivals = <<>>
  /\ updater = [alive |-> FALSE, has_callback |-> FALSE]

Next ==
  \/ \E cmd \in CommandLines : InitializeCall(cmd)
  \/ CleanupCall
  \/ CheckForUpdatesCall
  \/ RunDelayedTask
  \/ RunTask
  \/ \E o1 \in Observers : \E o2 \in Observers : RunTaskRemoving(o1, o2)
  \/ \E o \in Observers : AddObserver(o)
  \/ \E o \in Observers : RemoveObserver(o)
  \/ \E r \in AgentReports : AgentEmit(r.ev, r.text, r.num)
  \/ \E answer \in BOOLEAN : AgentCanShutdown(answer)
  \/ AgentShutdownRequest

Spec == Init /\ [][Next]_vars

\* A caller of UpdateDownloadedCallback() among the lifecycle calls, the
\* checks, the agent's reports, the observers' registrations and the UI
\* thread's tasks.
UpdateReadyNext ==
  \/ \E cmd \in CommandLines : InitializeCall(cmd)
  \/ CleanupCall
  \/ CheckForUpdatesCall
  \/ RunTask
  \/ \E o \in Observers : AddObserver(o)
  \/ \E r \in AgentReports : AgentEmit(r.ev, r.text, r.num)
  \/ UpdateDownloadedCall

UpdateReadySpec == Init /\ [][UpdateReadyNext]_vars

\* The reports of the agent that the specification of the updater follows:
\* an update found, and an error.
UpdaterAgentReports ==
  {r \in AgentReports :
     r.ev \in {"update_found", "error"} /\ r.text \in {"", "network down"}}

\* The WinSparkleVersionUpdater among the lifecycle calls, the agent's
\* reports, the other observers' registrations and the UI thread's tasks.
UpdaterNext ==
  \/ UpdaterConstruct
  \/ UpdaterDestruct
  \/ \E has_callback \in BOOLEAN : CheckForUpdateCall(has_callback)
  \/ \E status \in WinSparkleStatus : UpdaterStatusChanged(status)
  \/ \E percent \in ProgressValues : UpdaterProgress(percent)
  \/ \E text \in {kErrorMessage} : UpdaterError(text)
  \/ \E cmd \in CommandLines : InitializeCall(cmd)
  \/ CleanupCall
  \/ RunTask
  \/ \E r \in UpdaterAgentReports : AgentEmit(r.ev, r.text, r.num)
  \/ \E o \in Observers : AddObserver(o)
  \/ \E o \in Observers : RemoveObserver(o)

UpdaterSpec == Init /\ [][UpdaterNext]_vars

\* The UI thread's message loop keeps running the tasks posted to it.
FairSpec == Spec /\ WF_vars(RunTask)

(***************************************************************************)
(* Properties.                                                             *)
(***************************************************************************)
NotifyEvents == SelectSeq(events, LAMBDA e : e.k = "notify")
PostEvents == SelectSeq(events, LAMBDA e : e.k = "post")
\* The last step was a call of CheckForUpdates() (by a caller or by the
\* delayed task) that found the controller initialized.
CheckedWhileInitialized ==
  last.op \in {"CheckForUpdates", "RunDelayedTask"} /\ last.preInit

\* C1: once the UI thread has run every task posted by the time the agent's
\* latest event arrived, the status is the one the transition table gives for
\* that event (update found -> UpdateAvailable, no update found -> UpToDate,
\* cancelled -> Idle, download progress -> Downloading, download complete ->
\* ReadyToInstall, error -> Error).
C1_StatusFollowsTable ==
  (lastEvent.ev # "none" /\ uiQueue = <<>>)
    => g_status = TransitionTable(lastEvent.ev)

\* C2: an Initialize() that finds the controller initialized changes nothing:
\* status, payload fields, agent (callbacks registered once, initialized
\* once), task queue, delayed tasks, observers; it calls nothing.
C2_InitializeTwiceNoEffect ==
  [][(g_initialized /\ last'.op = "Initialize")
       => /\ UNCHANGED <<glue, agent, uiQueue, delayedTasks, observers>>
          /\ events' = <<>>
          /\ agent'.inits = 1
          /\ \A slot \in CallbackSlots :
               agent'.callbacks[slot] # "null" => agent'.regs[slot] = 1]_vars

C2_Witness == last.op = "Initialize" /\ last.preInit

\* C3: a Cleanup() that finds the controller not initialized changes nothing
\* (status, update-ready flag, pending version, last error, agent, queue,
\* observers), calls no function of the agent and notifies no observer.
C3_CleanupUninitializedNoOp ==
  [][(~g_initialized /\ last'.op = "Cleanup")
       => /\ UNCHANGED <<glue, agent, uiQueue, delayedTasks, observers>>
          /\ events' = <<>>]_vars

C3_Witness == last.op = "Cleanup" /\ ~last.preInit

\* C4: when Cleanup() has returned, GetStatus() is Idle, IsUpdateReady() is
\* false and the pending version and last error are empty.
C4_AfterCleanupIdle ==
  last.op = "Cleanup"
    => /\ GetStatus = "Idle"
       /\ ~IsUpdateReady
       /\ g_pending_version = ""
       /\ g_last_error = ""

\* C5: a CheckForUpdates() that finds the status Checking delivers no
\* notification to any observer.
C5_NoSecondCheckingNotification ==
  (CheckedWhileInitialized /\ last.preStatus = "Checking")
    => NotifyEvents = <<>>

\* C6: a CheckForUpdates() that finds the status Checking posts no further
\* agent check: the request is coalesced with the active one.
C6_CheckCoalesced ==
  (CheckedWhileInitialized /\ last.preStatus = "Checking")
    => PostEvents = <<>>

\* C7: after Initialize(), check started, download progress 10, download
\* progress 55 and download complete, with every task run, the status is
\* ReadyToInstall, a pending version is set and the host's update indicator
\* was notified exactly once; and every download-complete report of the agent
\* posts the task that notifies the indicator.
C7_DownloadScenario ==
  /\ (scen.step = 5 /\ uiQueue = <<>>)
       => /\ g_status = "ReadyToInstall"
          /\ g_update_ready
          /\ g_pending_version # ""
          /\ scen.notified = 1
  /\ (last.op = "AgentEmit" /\ last.arg = "download_complete")
       => PostEvents = <<Post("HandleUpdateReadyOnUIThread", kPlaceholderVersion)>>

\* C8: once the task of the agent's error(msg) has run, the status is Error
\* and the last error is the message msg of the agent.
C8_LastErrorIsAgentMessage ==
  (lastEvent.ev = "error" /\ uiQueue = <<>>)
    => /\ g_status = "Error"
       /\ g_last_error = lastEvent.text

\* C9: a CheckForUpdates() on an initialized controller, whatever the status
\* it finds (Error included), leaves the status Checking and has notified
\* every registered observer of Checking, once each, in registration order.
C9_CheckRecoversFromAnyStatus ==
  CheckedWhileInitialized
    => /\ g_status = "Checking"
       /\ Len(NotifyEvents) = Len(observers)
       /\ \A i \in 1..Len(observers) :
            NotifyEvents[i] =
              Notify(observers[i], "OnWinSparkleStatusChanged", "Checking")

C9_Witness ==
  /\ last.op = "CheckForUpdates"
  /\ last.preInit
  /\ last.preStatus = "Error"
  /\ observers # <<>>
  /\ g_status = "Checking"

\* C10: the shutdown-permission callback returns 1 when the host says all
\* browsers are closeable and 0 when it says they are not, in every status;
\* it posts no task, calls nothing and leaves status, payload fields,
\* initialized flag, observers and the task queue as they were.
C10_CanShutdownPure ==
  [][(last'.op = "CanShutdownCallback")
       => /\ last'.num = (IF last'.arg = "closeable" THEN 1 ELSE 0)
          /\ events' = <<>>
          /\ UNCHANGED <<glue, observers, uiQueue, delayedTasks, agent>>]_vars

C10_Witness ==
  /\ last.op = "CanShutdownCallback"
  /\ last.arg = "not closeable"
  /\ last.num = 0
  /\ g_status = "Checking"
  /\ uiQueue # <<>>

\* The OnWinSparkleStatusChanged calls observer o received in the last step.
StatusCallsTo(o) ==
  Len(SelectSeq(events, LAMBDA e : e.k = "notify" /\ e.to = o
                                   /\ e.m = "OnWinSparkleStatusChanged"))

InList(list, o) == \E i \in 1..Len(list) : list[i] = o

\* C11: when an observer removes itself or another observer from inside its
\* OnWinSparkleStatusChanged, the round completes: every observer registered
\* at its start and not removed receives the notification exactly once,
\* nobody receives it twice, nobody outside the list receives it, and the
\* list left behind is the old one without the removed observer.
C11_RemovalDuringRoundSkipsNobody ==
  last.op = "RunTaskRemoving"
    => /\ \A o \in Observers :
            /\ (InList(last.before, o) /\ o # last.removed)
                  => StatusCallsTo(o) = 1
            /\ StatusCallsTo(o) <= 1
            /\ ~InList(last.before, o) => StatusCallsTo(o) = 0
       /\ observers = SelectSeq(last.before, LAMBDA o : o # last.removed)
       /\ g_status = last.status

C11_Witness ==
  /\ last.op = "RunTaskRemoving"
  /\ last.remover = last.removed
  /\ Len(last.before) = 2
  /\ last.before[1] = last.remover
  /\ StatusCallsTo(last.before[2]) = 1

\* C12: a CheckForUpdates() that finds the controller not initialized, made
\* by a caller or by the delayed force-check task, changes neither the status
\* nor the update-ready flag, pending version and last error, notifies no
\* observer, posts no task and calls no function of the agent.
C12_CheckUninitializedNoOp ==
  [][(~g_initialized /\ last'.op \in {"CheckForUpdates", "RunDelayedTask"})
       => /\ UNCHANGED <<glue, uiQueue, observers, agent>>
          /\ events' = <<>>]_vars

C12_Witness ==
  /\ last.op = "CheckForUpdates"
  /\ ~last.preInit
  /\ observers # <<>>
  /\ g_status = "Error"

CheckCall == AgentCall("win_sparkle_check_update_with_ui", "")

\* C13: a CheckForUpdates() on an initialized controller has, when it
\* returns, set the status to Checking, called OnWinSparkleStatusChanged
\* (Checking) on every observer and only then posted one task for the agent's
\* check, which is now the newest task of the queue; it has not called the
\* agent.  The agent's check is called by that task alone, when the UI thread
\* runs it.
C13_NotifyThenDeferredCheck ==
  /\ CheckedWhileInitialized
       => /\ g_status = "Checking"
          /\ events = CheckingNotifications \o <<Post("CheckUpdateLambda", "")>>
          /\ uiQueue # <<>>
          /\ uiQueue[Len(uiQueue)] = Task("CheckUpdateLambda", "", "")
  /\ (\E i \in 1..Len(events) : events[i] = CheckCall)
       => /\ last.op = "RunTask"
          /\ last.arg = "CheckUpdateLambda"
          /\ events = <<CheckCall>>

C13_Witness ==
  /\ last.op = "CheckForUpdates"
  /\ last.preInit
  /\ Len(observers) = 2
  /\ Len(events) = 3
  /\ events[3] = Post("CheckUpdateLambda", "")

QuitTask == Task("CloseAllBrowsersAndQuit", "", "")
QuitCall == HostCall("CloseAllBrowsersAndQuit", "")
\* The close-all-and-quit tasks waiting in a queue, the calls of the host's
\* primitive among the calls of a step.
PendingQuits(queue) == Len(SelectSeq(queue, LAMBDA t : t = QuitTask))
QuitCalls(evs) == Len(SelectSeq(evs, LAMBDA e : e = QuitCall))

\* C14: the shutdown-request callback only posts one close-all-and-quit task
\* to the UI thread and returns: it calls neither the host nor the agent and
\* changes no state.  The host's primitive is called only by the UI thread
\* running such a task, once per task, with no call back to the agent; the
\* tasks waiting are exactly the requests not yet served.  While the UI
\* thread keeps running its tasks, a request is followed by the call.
C14_ShutdownRequestQuitsOnce ==
  /\ [][/\ PendingQuits(uiQueue') =
             PendingQuits(uiQueue) - QuitCalls(events')
             + (IF last'.op = "ShutdownRequestCallback" THEN 1 ELSE 0)
        /\ last'.op = "ShutdownRequestCallback"
             => /\ uiQueue' = Append(uiQueue, QuitTask)
                /\ events' = <<Post("CloseAllBrowsersAndQuit", "")>>
                /\ UNCHANGED <<glue, observers, agent>>
        /\ QuitCalls(events') > 0
             => /\ last'.op = "RunTask"
                /\ Head(uiQueue) = QuitTask
                /\ events' = <<QuitCall>>]_vars
  /\ (last.op = "ShutdownRequestCallback")
       ~> (last.op = "RunTask" /\ last.arg = "CloseAllBrowsersAndQuit"
           /\ events = <<QuitCall>>)

C14_Witness ==
  /\ last.op = "RunTask"
  /\ last.arg = "CloseAllBrowsersAndQuit"
  /\ events = <<QuitCall>>
  /\ PendingQuits(uiQueue) = 1

\* The operations that run on the agent's thread.
AgentThreadOps == {"AgentEmit", "CanShutdownCallback", "ShutdownRequestCallback"}

\* C15: a step on the agent's thread leaves the status, the update-ready
\* flag, the pending version, the last error, the initialized flag and the
\* observer list as they were, and calls no observer, no host function and
\* no function of the agent: it posts at most one task.  The task a
\* status-bearing callback posts is fixed by the event alone, whatever the
\* state of the controller; the shutdown-permission query posts nothing.
C15_AgentThreadOnlyPosts ==
  [][(last'.op \in AgentThreadOps)
       => /\ UNCHANGED <<glue, observers>>
          /\ Len(events') <= 1
          /\ \A i \in 1..Len(events') : events'[i].k = "post"
          /\ last'.op = "CanShutdownCallback"
               => (events' = <<>> /\ uiQueue' = uiQueue)
          /\ last'.op = "AgentEmit"
               => IF agent.callbacks[SlotOf(last'.arg)] = "null"
                  THEN events' = <<>> /\ uiQueue' = uiQueue
                  ELSE /\ events' = <<Post("SetStatusOnUIThread",
                                           TransitionTable(last'.arg))>>
                       /\ uiQueue' =
                            Append(uiQueue,
                                   Task("SetStatusOnUIThread",
                                        TransitionTable(last'.arg),
                                        IF last'.arg = "error"
                                        THEN kErrorMessage ELSE ""))]_vars

C15_Witness ==
  /\ last.op = "AgentEmit"
  /\ last.arg = "update_found"
  /\ events = <<Post("SetStatusOnUIThread", "UpdateAvailable")>>
  /\ Len(observers) = 2
  /\ g_status = "Checking"

\* The statuses the OnWinSparkleStatusChanged calls of a step carried to o.
StatusesTo(evs, o) ==
  SelectSeq(evs, LAMBDA e : e.k = "notify" /\ e.to = o
                            /\ e.m = "OnWinSparkleStatusChanged")

\* C16: whenever the UI thread runs a status task, the transition it delivers
\* is the oldest one the agent reported and the UI thread has not delivered
\* yet: the status becomes that transition's, and every observer registered
\* before and after the step receives exactly one OnWinSparkleStatusChanged,
\* carrying it.  So each observer receives the agent's transitions in their
\* order of arrival, whatever CheckForUpdates(), AddObserver(),
\* RemoveObserver() and other tasks come in between.
C16_DeliveredInArrivalOrder ==
  [][(last'.op \in {"RunTask", "RunTaskRemoving"} /\ last'.arg \in StatusTasks)
       => /\ arrivals # <<>>
          /\ arrivals' = Tail(arrivals)
          /\ g_status' = Head(arrivals)
          /\ \A o \in Observers :
               (InList(observers, o) /\ InList(observers', o))
                 => StatusesTo(events', o) =
                      <<Notify(o, "OnWinSparkleStatusChanged", Head(arrivals))>>]_vars

C16_Witness ==
  /\ last.op = "RunTask"
  /\ last.arg = "SetStatusOnUIThread"
  /\ Len(observers) = 2
  /\ arrivals # <<>>
  /\ arrivals[1] # last.status
  /\ g_status = last.status
  /\ StatusCallsTo(observers[2]) = 1

ErrorCalls == SelectSeq(events, LAMBDA e : e.k = "notify"
                                           /\ e.m = "OnWinSparkleError")

\* C17: when the UI thread has run a status task carrying Error, the last
\* error is set and every registered observer, in turn, has received
\* OnWinSparkleStatusChanged(Error) followed by OnWinSparkleError with the
\* text now stored as last error; a step that is not the delivery of an
\* Error transition calls OnWinSparkleError on nobody.
C17_ErrorCarriesStoredMessage ==
  /\ (last.op = "RunTask" /\ last.arg = "SetStatusOnUIThread"
       /\ last.status = "Error")
       => /\ g_status = "Error"
          /\ g_last_error # ""
          /\ Len(events) = 2 * Len(observers)
          /\ \A i \in 1..Len(observers) :
               /\ events[2 * i - 1] =
                    Notify(observers[i], "OnWinSparkleStatusChanged", "Error")
               /\ events[2 * i] =
                    Notify(observers[i], "OnWinSparkleError", g_last_error)
  /\ ErrorCalls # <<>>
       => /\ last.op \in {"RunTask", "RunTaskRemoving"}
          /\ last.arg = "SetStatusOnUIThread"
          /\ last.status = "Error"

C17_Witness ==
  /\ last.op = "RunTask"
  /\ last.status = "Error"
  /\ Len(observers) = 2
  /\ Len(ErrorCalls) = 2
  /\ ErrorCalls[2].v = g_last_error

\* C18: a download progress report of the agent posts a task to the UI
\* thread, and once the UI thread has run its tasks the status is
\* Downloading; OnWinSparkleProgress is called on the observers by the step
\* that delivers it.
C18_ProgressBecomesDownloading ==
  /\ (last.op = "AgentEmit" /\ last.arg = "download_progress")
       => PostEvents # <<>>
  /\ (lastEvent.ev = "download_progress" /\ uiQueue = <<>>
       /\ last.op = "RunTask")
       => /\ g_status = "Downloading"
          /\ \E i \in 1..Len(events) :
               events[i].m = "OnWinSparkleProgress" /\ events[i].v = lastEvent.num

\* C19: once Initialize() has run on a fresh controller, the agent holds a
\* callback for every event of the transition table (update found, no
\* update found, cancelled, download progress, download complete, error) and
\* for the two shutdown callbacks.
C19_AllCallbacksRegistered ==
  (last.op = "Initialize" /\ ~last.preInit)
    => /\ \A ev \in StatusEvents : agent.callbacks[SlotOf(ev)] # "null"
       /\ agent.callbacks["can_shutdown"] # "null"
       /\ agent.callbacks["shutdown_request"] # "null"

\* C20: IsEnabled() is false at the start; Initialize() leaves it true,
\* Cleanup() leaves it false, and no other step (CheckForUpdates(), a
\* callback of the agent, a task of the UI thread, AddObserver(),
\* RemoveObserver()) changes it.
C20_IsEnabledFollowsLifecycle ==
  /\ ~IsEnabled
  /\ [][IsEnabled' = (IF last'.op = "Initialize" THEN TRUE
                      ELSE IF last'.op = "Cleanup" THEN FALSE
                      ELSE IsEnabled)]_vars

C20_Witness ==
  /\ last.op = "RunTask"
  /\ last.arg = "SetStatusOnUIThread"
  /\ ~last.preInit
  /\ ~IsEnabled
  /\ g_status = "Error"

\* C21: an Initialize() that finds the controller not initialized, the first
\* one or one that follows a Cleanup(), leaves the controller initialized,
\* the callbacks registered once and the agent initialized once since its
\* last cleanup, the status Idle, the update-ready flag false and the pending
\* version and last error empty.
C21_ReinitializeStartsFresh ==
  (last.op = "Initialize" /\ ~last.preInit)
    => /\ IsEnabled
       /\ agent.running
       /\ agent.inits = 1
       /\ \A slot \in CallbackSlots :
            RegisteredByInitialize[slot] # "null"
              => (agent.callbacks[slot] = RegisteredByInitialize[slot]
                  /\ agent.regs[slot] = 1)
       /\ GetStatus = "Idle"
       /\ ~IsUpdateReady
       /\ g_pending_version = ""
       /\ g_last_error = ""

\* C22: an Initialize() that takes effect leaves the status Idle, notifies
\* nobody and posts nothing to run at once; with --winsparkle-force-check it
\* schedules exactly one delayed CheckForUpdates(), without the flag none.
\* The status becomes Checking only when a delayed task, later, runs
\* CheckForUpdates() on an initialized controller.
C22_ForceCheckIsDelayed ==
  [][/\ (~g_initialized /\ last'.op = "Initialize")
          => /\ g_status' = "Idle"
             /\ uiQueue' = uiQueue
             /\ NotifyEvents' = <<>>
             /\ IF last'.arg = "force_check"
                THEN /\ delayedTasks' = delayedTasks + 1
                     /\ PostEvents' = <<Post("CheckForUpdates", "delayed")>>
                ELSE /\ delayedTasks' = delayedTasks
                     /\ PostEvents' = <<>>
     /\ last'.op = "RunDelayedTask"
          => /\ delayedTasks' = delayedTasks - 1
             /\ g_status' = (IF g_initialized THEN "Checking" ELSE g_status)]_vars

C22_Witness ==
  /\ last.op = "RunDelayedTask"
  /\ last.preInit
  /\ last.preStatus = "Idle"
  /\ g_status = "Checking"
  /\ delayedTasks = 0

\* C23: when WinSparkleVersionUpdater::CheckForUpdate is called with a status
\* callback while IsEnabled() is false, the callback is run once, with
\* FAILED and the text "WinSparkle updater not available", never with
\* CHECKING; CheckForUpdates() of the glue is not called: nothing is posted,
\* no observer is notified and no state changes.
C23_DisabledCheckReportsFailed ==
  [][(~IsEnabled /\ last'.op = "CheckForUpdate" /\ last'.arg = "callback")
       => /\ last'.reports =
               <<CallbackRun("FAILED", kUpdaterUnavailableMessage)>>
          /\ events' = <<>>
          /\ UNCHANGED <<glue, uiQueue, observers, agent, delayedTasks>>]_vars

C23_Witness ==
  /\ last.op = "CheckForUpdate"
  /\ ~last.preInit
  /\ last.arg = "callback"
  /\ last.reports = <<CallbackRun("FAILED", kUpdaterUnavailableMessage)>>
  /\ Len(observers) = 3
  /\ g_status = "Idle"
  /\ uiQueue = <<>>
  /\ events = <<>>

\* C24: GetStatus() never returns Installing, and no task waiting in the UI
\* thread's queue carries it.
C24_NeverInstalling ==
  /\ GetStatus # "Installing"
  /\ \A i \in 1..Len(uiQueue) : uiQueue[i].status # "Installing"

C24_Witness ==
  /\ last.op = "RunTask"
  /\ last.arg = "CloseAllBrowsersAndQuit"
  /\ g_initialized
  /\ GetStatus = "UpdateAvailable"

\* C25: while the controller stays initialized, a step takes the status from
\* a status other than Idle to Idle only by delivering the transition of the
\* agent's cancelled callback.  A no-update-found transition delivered when
\* the status is already UpToDate leaves it UpToDate and calls
\* OnWinSparkleStatusChanged(UpToDate) on every observer again.
C25_IdleOnlyByCancel ==
  /\ [][(g_initialized /\ g_initialized' /\ g_status # "Idle"
         /\ g_status' = "Idle")
          => /\ last'.op \in {"RunTask", "RunTaskRemoving"}
             /\ last'.arg = "SetStatusOnUIThread"
             /\ arrivals # <<>>
             /\ Head(arrivals) = TransitionTable("cancelled")]_vars
  /\ []((last.op = "RunTask" /\ last.arg = "SetStatusOnUIThread"
         /\ last.status = "UpToDate" /\ last.preStatus = "UpToDate")
          => /\ g_status = "UpToDate"
             /\ events = [i \in 1..Len(observers) |->
                            Notify(observers[i], "OnWinSparkleStatusChanged",
                                   "UpToDate")])

C25_Witness ==
  /\ last.op = "RunTask"
  /\ last.status = "UpToDate"
  /\ last.preStatus = "UpToDate"
  /\ last.preInit
  /\ Len(observers) = 2
  /\ Len(events) = 2

\* C26: whenever the controller is not initialized, GetStatus() is Idle,
\* IsUpdateReady() is false and the pending version and last error are empty;
\* a status task that runs while the controller is not initialized notifies
\* no observer.
C26_UninitializedIsDetached ==
  /\ ~g_initialized
       => /\ GetStatus = "Idle"
          /\ ~IsUpdateReady
          /\ g_pending_version = ""
          /\ g_last_error = ""
  /\ (last.op = "RunTask" /\ last.arg \in StatusTasks /\ ~last.preInit)
       => NotifyEvents = <<>>

\* What the task that makes the ReadyToInstall transition does before it
\* turns to the host: the flag, the version, the status, then
\* OnWinSparkleStatusChanged(ReadyToInstall) on every observer.
ReadyTransitionCalls ==
  <<Write("g_update_ready", "true"),
    Write("g_pending_version", g_pending_version),
    Write("g_status", "ReadyToInstall")>>
  \o [i \in 1..Len(observers) |->
        Notify(observers[i], "OnWinSparkleStatusChanged", "ReadyToInstall")]

C28_DeferredCheckNeedsInitialized ==
  /\ (last.op = "RunTask" /\ last.arg = "CheckUpdateLambda")
       => /\ events = (IF last.preInit THEN <<CheckCall>> ELSE <<>>)
          /\ g_initialized = last.preInit
  /\ (\E i \in 1..Len(events) : events[i] = CheckCall)
       => (g_initialized /\ agent.running)

C28_Witness ==
  /\ last.op = "RunTask"
  /\ last.arg = "CheckUpdateLambda"
  /\ ~last.preInit
  /\ events = <<>>
  /\ GetStatus = "Idle"

\* Every observer registered before and after the step has received exactly
\* one OnWinSparkleStatusChanged in the step, carrying the new status.
AllNotifiedOfNewStatus ==
  \A o \in Observers :
    (InList(observers, o) /\ InList(observers', o))
      => StatusesTo(events', o) =
           <<Notify(o, "OnWinSparkleStatusChanged", g_status')>>

\* C29 as stated: every step that changes the value of GetStatus(), the
\* steps of Initialize() and Cleanup() included, notifies every registered
\* observer of the new value in the same step.
C29_EveryChangeNotified ==
  [][(g_status' # g_status) => AllNotifiedOfNewStatus]_vars

\* C29 as amended: a step of a status task or of CheckForUpdates() that
\* changes the value of GetStatus() notifies every registered observer of
\* the new value in the same step; Initialize() and Cleanup() set the status
\* to Idle without notifying any observer.
C29_ChangeNotifiedExceptLifecycle ==
  [][/\ (g_status' # g_status /\ last'.op \notin {"Initialize", "Cleanup"})
          => AllNotifiedOfNewStatus
     /\ (last'.op \in {"Initialize", "Cleanup"})
          => (g_status' \in {g_status, "Idle"} /\ NotifyEvents' = <<>>)]_vars

C29_Witness ==
  /\ last.op = "Cleanup"
  /\ last.preInit
  /\ last.preStatus = "Checking"
  /\ GetStatus = "Idle"
  /\ Len(observers) = 2
  /\ NotifyEvents = <<>>

\* The last step was a Cleanup() that found the controller initialized.
CleanupTookEffect == last'.op = "Cleanup" /\ g_initialized

\* C30: the update-ready flag, once true, stays true, and the pending
\* version, once set, stays set, through every step but a Cleanup() that
\* takes effect (the version changes only when a download-complete task
\* writes it again); the last error, once set, keeps its text through every
\* step but such a Cleanup() and the delivery of a further error.
C30_ReadyAndErrorRetained ==
  [][/\ (g_update_ready /\ ~g_update_ready') => CleanupTookEffect
     /\ (g_pending_version # "" /\ g_pending_version' # g_pending_version)
          => \/ CleanupTookEffect
             \/ (last'.op = "RunTask"
                 /\ last'.arg = "HandleUpdateReadyOnUIThread"
                 /\ g_pending_version' # "")
     /\ (g_last_error # "" /\ g_last_error' # g_last_error)
          => \/ CleanupTookEffect
             \/ (last'.op \in {"RunTask", "RunTaskRemoving"}
                 /\ last'.status = "Error" /\ g_last_error' # "")]_vars

C30_Witness ==
  /\ last.op = "CheckForUpdates"
  /\ last.preInit
  /\ last.preStatus = "UpToDate"
  /\ IsUpdateReady
  /\ g_pending_version = kPlaceholderVersion
  /\ g_last_error = kErrorMessage
  /\ GetStatus = "Checking"

\* The help-page status the claim gives for each status of the glue; "none"
\* where no callback is to be run.
HelpPageStatus ==
  [s \in WinSparkleStatus |->
     CASE s = "Idle"                               -> "none"
       [] s = "Checking"                           -> "CHECKING"
       [] s \in {"UpdateAvailable", "Downloading"} -> "UPDATING"
       [] s \in {"ReadyToInstall", "Installing"}   -> "NEARLY_UPDATED"
       [] s = "UpToDate"                           -> "UPDATED"
       [] s = "Error"                              -> "FAILED"]

UpdaterHandlers ==
  {"OnWinSparkleStatusChanged", "OnWinSparkleProgress", "OnWinSparkleError"}

\* C31: the WinSparkleVersionUpdater is in the observer list, once, exactly
\* while it exists, and holds no status callback when it has just been
\* constructed.  While its status callback is null no notification of any
\* kind runs a callback.  With a status callback, a status notification runs
\* it once with the help-page status of the fixed mapping (Checking ->
\* CHECKING, UpdateAvailable and Downloading -> UPDATING, ReadyToInstall and
\* Installing -> NEARLY_UPDATED, UpToDate -> UPDATED, Error -> FAILED) and
\* not at all for Idle; a progress notification runs it once with UPDATING
\* and the percentage, an error notification once with FAILED and the text.
\* The same holds for the notifications the glue sends: a status task run
\* on the UI thread reaches the registered updater translated in the same
\* way (followed, for an error with a message, by FAILED and the message),
\* and CheckForUpdate() with a callback on an enabled glue reports CHECKING
\* itself and once more for the Checking notification the glue then sends
\* to the updater, which is in the list.
C31_UpdaterTranslatesStatus ==
  /\ updater.alive
       <=> Len(SelectSeq(observers, LAMBDA o : o = kUpdater)) = 1
  /\ ~updater.alive => ~InList(observers, kUpdater)
  /\ last.op = "WinSparkleVersionUpdater" => ~updater.has_callback
  /\ (last.op \in UpdaterHandlers /\ ~updater.has_callback)
       => last.reports = <<>>
  /\ (last.op = "OnWinSparkleStatusChanged" /\ updater.has_callback)
       => IF HelpPageStatus[last.status] = "none"
          THEN last.reports = <<>>
          ELSE /\ Len(last.reports) = 1
               /\ last.reports[1].status = HelpPageStatus[last.status]
  /\ (last.op = "OnWinSparkleProgress" /\ updater.has_callback)
       => /\ Len(last.reports) = 1
          /\ last.reports[1].status = "UPDATING"
          /\ last.reports[1].progress = last.num
  /\ (last.op = "OnWinSparkleError" /\ updater.has_callback)
       => last.reports = <<CallbackRun("FAILED", last.text)>>
  /\ (last.op = "RunTask" /\ last.arg = "SetStatusOnUIThread")
       => last.reports =
            IF ~updater.has_callback \/ ~InList(observers, kUpdater)
            THEN <<>>
            ELSE (IF HelpPageStatus[last.status] = "none" THEN <<>>
                  ELSE <<CallbackRun(HelpPageStatus[last.status],
                                     IF last.status = "Error"
                                     THEN kUpdaterErrorMessage ELSE "")>>)
                 \o (IF last.status = "Error" /\ last.text # ""
                     THEN <<CallbackRun("FAILED", last.text)>> ELSE <<>>)
  /\ (last.op = "CheckForUpdate" /\ last.preInit /\ last.arg = "callback")
       => /\ InList(observers, kUpdater)
          /\ updater.has_callback
          /\ last.reports =
               <<CallbackRun("CHECKING", ""), CallbackRun("CHECKING", "")>>

C31_Witness ==
  /\ last.op = "OnWinSparkleStatusChanged"
  /\ last.status = "Installing"
  /\ updater.has_callback
  /\ last.reports = <<CallbackRun("NEARLY_UPDATED", "")>>
  /\ Len(observers) = 3

====
